---- MODULE Spec2Model ----
(***************************************************************************)
(* Upload pipeline of the file-storage service: the primary-media handler  *)
(* (src/api/videos.ts), its earlier direct-to-bucket variant and the       *)
(* thumbnail handler (src/api/assets.ts).                                  *)
(*                                                                         *)
(* Strings that the code builds by concatenation (paths, keys, URLs) are   *)
(* sequences of string tokens, so that a key layout or a URL is something  *)
(* the model computes.  Every await of a handler is a step boundary; the   *)
(* synchronous code between two awaits is one action.                      *)
(***************************************************************************)
EXTENDS Integers, Sequences, FiniteSets, TLC

VARIABLES
    runs,      \* slot -> the handler invocation running in it (locals + position)
    db,        \* record store: video id -> video record
    tmp,       \* scratch storage /tmp: path -> file content
    s3,        \* durable object storage: key -> object
    assets,    \* local assets directory: file name -> file content
    nreq,      \* number of requests received so far
    gateIn,    \* a complete request handed to the validation gate (gate specification)
    gateOut,   \* the gate's decision for gateIn
    probeIn,   \* a report of ffprobe handed to the classifier (prober specification)
    probeOut   \* what getVideoAspectRatio makes of probeIn

vars == <<runs, db, tmp, s3, assets, nreq, gateIn, gateOut, probeIn, probeOut>>

-----------------------------------------------------------------------------
(* Bounds *)

\* requests the server receives in one behaviour
MaxRequests == 2
\* handler invocations that may be in flight at once
NumSlots == 2

Slots == 1..NumSlots

-----------------------------------------------------------------------------
(* Program constants and configuration *)

\* videos.ts: const MAX_UPLOAD_SIZE = 1 << 30
MAX_UPLOAD_SIZE == 2^30
\* assets.ts: const MAX_UPLOAD_SIZE = 10 << 20
MAX_UPLOAD_SIZE_THUMBNAIL == 10 * 2^20

\* ApiConfig fields the handlers read
cfg ==
    [ s3CfDistribution |-> "d111.cloudfront.net",
      s3Bucket         |-> "bucket",
      s3Region         |-> "us-east-1",
      port             |-> "8091",
      assetsRoot       |-> "assets" ]

-----------------------------------------------------------------------------
(* Input domains *)

KnownVideoId   == "11111111-1111-4111-8111-111111111111"
UnknownVideoId == "99999999-9999-4999-8999-999999999999"
VideoIdInputs  == {"", "not-a-uuid", KnownVideoId, UnknownVideoId}

Tokens == {"jwt-alice", "jwt-bob", "jwt-bad"}

\* a MIME type is the sequence of its tokens, "/" being a token of its own
VideoMp4 == <<"video", "/", "mp4">>
ImagePng == <<"image", "/", "png">>
\* content types of the uploads the server receives: well-formed, without a
\* slash, and empty; the gate specification adds the bare slash
ImageNoSlash == <<"png">>
MediaTypes == {VideoMp4, ImagePng, ImageNoSlash, <<>>}
GateMediaTypes == MediaTypes \cup {<<"/">>}
\* sizes of the uploads the server receives: each ceiling and the size one byte
\* over it
Sizes == {MAX_UPLOAD_SIZE_THUMBNAIL, MAX_UPLOAD_SIZE_THUMBNAIL + 1,
          MAX_UPLOAD_SIZE, MAX_UPLOAD_SIZE + 1}
GateSizes == Sizes

\* the bytes of an upload: every request carries its own
PayloadTexts == <<"bytes1", "bytes2", "bytes3", "bytes4", "bytes5", "bytes6">>

Kinds == {"video", "videoDirect", "thumbnail"}

\* formData.get(name): a File, or something that is not a File (a string field, null)
NotAFile == [isFile |-> FALSE, size |-> 0, type |-> <<>>, bytes |-> ""]
Files(sizes, types, payloads) ==
    [isFile : {TRUE}, size : sizes, type : types, bytes : payloads]

\* the 32 random bytes of a key, as the text the code turns them into
RandomTexts == <<"a1f0", "b2e1", "c3d2", "d4c3", "e5b4", "f6a5">>

-----------------------------------------------------------------------------
(* Errors *)

Err(kind, msg) == [kind |-> kind, msg |-> msg]
NoError == Err("none", "")

-----------------------------------------------------------------------------
(* Record store *)

NoURL == <<>>
NoVideo == [id |-> "", userID |-> "", title |-> "", videoURL |-> NoURL, thumbnailURL |-> NoURL]

InitialVideo ==
    [ id |-> KnownVideoId, userID |-> "alice", title |-> "holiday",
      videoURL |-> NoURL, thumbnailURL |-> NoURL ]

\* getVideo(cfg.db, videoId): the row as a fresh object, or undefined
getVideo(store, videoId) ==
    IF videoId \in DOMAIN store THEN store[videoId] ELSE NoVideo

\* updateVideo(cfg.db, video): persists the whole record under its id
updateVideo(store, video) ==
    [store EXCEPT ![video.id] = video]

-----------------------------------------------------------------------------
(* Authentication *)

\* validate(videoId) of the uuid package
validateUUID(videoId) == videoId \in {KnownVideoId, UnknownVideoId}

\* getBearerToken + validateJWT: the user id of the token, or a thrown error
TokenUser(token) ==
    CASE token = "jwt-alice" -> "alice"
      [] token = "jwt-bob"   -> "bob"
      [] OTHER               -> ""

validateJWT(token) ==
    IF TokenUser(token) = ""
    THEN [err |-> Err("UserNotAuthenticatedError", "Invalid token"), userID |-> ""]
    ELSE [err |-> NoError, userID |-> TokenUser(token)]

-----------------------------------------------------------------------------
(* Files: scratch storage, the assets directory and the bucket are maps *)

NoContent == [data |-> "", form |-> "absent"]
Raw(bytes) == [data |-> bytes, form |-> "raw"]
Partial(bytes) == [data |-> bytes, form |-> "partial"]
\* what ffmpeg -movflags faststart -codec copy makes of a file
FastStart(content) == [data |-> content.data, form |-> "faststart"]

Exists(fs, path) == path \in DOMAIN fs

ReadFile(fs, path) == IF Exists(fs, path) THEN fs[path] ELSE NoContent

\* Bun.write(path, content): creates the file or replaces its content
WriteFile(fs, path, content) ==
    [p \in DOMAIN fs \cup {path} |-> IF p = path THEN content ELSE fs[p]]

\* the unlink behind Bun.file(path).delete()
RemoveFile(fs, path) ==
    [p \in DOMAIN fs \ {path} |-> fs[p]]

-----------------------------------------------------------------------------
(* Validation gate of the primary-media handler *)

\* videos.ts 15-34: the checks made before the body is read
VideoGateIdentity(videoId, token, store) ==
    LET auth  == validateJWT(token)
        video == getVideo(store, videoId)
        none  == [userID |-> "", video |-> NoVideo]
    IN  IF videoId = ""
        THEN [err |-> Err("BadRequestError", "Invalid video ID")] @@ none
        ELSE IF ~validateUUID(videoId)
        THEN [err |-> Err("BadRequestError", "Invalid video ID format")] @@ none
        ELSE IF auth.err # NoError
        THEN [err |-> auth.err] @@ none
        ELSE IF video = NoVideo
        THEN [err |-> Err("BadRequestError", "Video not found")] @@ none
        ELSE IF video.userID # auth.userID
        THEN [err |-> Err("UserForbiddenError", "You are not the owner of this video")] @@ none
        ELSE [err |-> NoError, userID |-> auth.userID, video |-> video]

\* the size check with >= in place of >: a file of exactly the ceiling is refused
VideoGateFileRefusingCeiling(file) ==
    IF ~file.isFile
    THEN Err("BadRequestError", "Invalid video file")
    ELSE IF file.size >= MAX_UPLOAD_SIZE
    THEN Err("BadRequestError", "Video file exceeds maximum size")
    ELSE IF file.type # VideoMp4
    THEN Err("BadRequestError", "Invalid Content-Type for video")
    ELSE NoError

\* videos.ts 37-55: the checks made on the uploaded part
VideoGateFile(file) ==
    IF ~file.isFile
    THEN Err("BadRequestError", "Invalid video file")
    ELSE IF file.size > MAX_UPLOAD_SIZE
    THEN Err("BadRequestError", "Video file exceeds maximum size")
    ELSE IF file.type # VideoMp4
    THEN Err("BadRequestError", "Invalid Content-Type for video")
    ELSE NoError

-----------------------------------------------------------------------------
(* Validation gate of the thumbnail handler *)

\* assets.ts 89-103
ThumbnailGateIdentity(videoId, token, store) ==
    LET auth  == validateJWT(token)
        video == getVideo(store, videoId)
        none  == [userID |-> "", video |-> NoVideo]
    IN  IF videoId = ""
        THEN [err |-> Err("BadRequestError", "Invalid video ID")] @@ none
        ELSE IF auth.err # NoError
        THEN [err |-> auth.err] @@ none
        ELSE IF video = NoVideo
        THEN [err |-> Err("NotFoundError", "Couldn't find video")] @@ none
        ELSE IF video.userID # auth.userID
        THEN [err |-> Err("UserForbiddenError", "You are not the owner of this video")] @@ none
        ELSE [err |-> NoError, userID |-> auth.userID, video |-> video]

\* assets.ts 106-119
ThumbnailGateFile(file) ==
    IF ~file.isFile
    THEN Err("BadRequestError", "Invalid thumbnail file")
    ELSE IF file.size > MAX_UPLOAD_SIZE_THUMBNAIL
    THEN Err("BadRequestError", "Thumbnail file exceeds maximum size")
    ELSE IF file.type = <<>>
    THEN Err("BadRequestError", "Missing Content-Type for thumbnail")
    ELSE NoError

-----------------------------------------------------------------------------
(* Prober: getVideoAspectRatio *)

\* what the ffprobe subprocess can report: exit status, whether stdout parses as
\* JSON, whether streams[0] is there, and its width and height (0: missing or zero)
Dims == {0, 1080, 1920}
ProbeOutputs ==
    [exitCode : {1}, json : {TRUE}, stream : {FALSE}, width : {0}, height : {0}]
    \cup [exitCode : {0}, json : {FALSE}, stream : {FALSE}, width : {0}, height : {0}]
    \cup [exitCode : {0}, json : {TRUE}, stream : {FALSE}, width : {0}, height : {0}]
    \cup [exitCode : {0}, json : {TRUE}, stream : {TRUE}, width : Dims, height : Dims]
NoProbe == [exitCode |-> -1, json |-> FALSE, stream |-> FALSE, width |-> 0, height |-> 0]
\* ffprobe on a path that does not exist
ProbeMissingFile == [exitCode |-> 1, json |-> TRUE, stream |-> FALSE, width |-> 0, height |-> 0]

Abs(x) == IF x < 0 THEN -x ELSE x

\* videos.ts 118-128: ratio = width / height, Math.abs(ratio - 16 / 9) < 0.1 and
\* Math.abs(ratio - 9 / 16) < 0.1, all in IEEE-754 doubles.  For dimensions below
\* 2^15 a ratio that is not exactly 1/10 away from the target is at least
\* 1/(160 * height) away from the threshold, far more than the rounding of the
\* quotient and of the difference, so the doubles compare as the rationals do,
\* cleared of fractions here.  Where the distance is exactly 1/10 the rounding
\* decides:
\*    151/90 - 16/9  is  -0.09999999999999987   (below 0.1)
\*    169/90 - 16/9  is   0.10000000000000009   (not below 0.1)
\*    37/80 - 9/16 and 53/80 - 9/16 are -+0.09999999999999998   (below 0.1)
\* and the division being correctly rounded, every pair with the same ratio
\* gives the same doubles.
NearLandscape(width, height) ==
    \/ 10 * Abs(9 * width - 16 * height) < 9 * height
    \/ 90 * width = 151 * height

NearPortrait(width, height) ==
    \/ 10 * Abs(16 * width - 9 * height) < 16 * height
    \/ 80 * width = 37 * height
    \/ 80 * width = 53 * height

Classify(width, height) ==
    IF NearLandscape(width, height)
    THEN "landscape"
    ELSE IF NearPortrait(width, height)
    THEN "portrait"
    ELSE "other"

\* the prober with a fallback: a report without usable dimensions is classified
\* "other" instead of throwing
getVideoAspectRatioFallingBack(out) ==
    IF out.exitCode # 0
    THEN [err |-> Err("Error", "ffprobe failed"), value |-> ""]
    ELSE IF ~out.json
    THEN [err |-> Err("SyntaxError", "JSON Parse error"), value |-> ""]
    ELSE IF ~out.stream \/ out.width = 0 \/ out.height = 0
    THEN [err |-> NoError, value |-> "other"]
    ELSE [err |-> NoError, value |-> Classify(out.width, out.height)]

\* videos.ts 103-128: the classification, or the error thrown
getVideoAspectRatio(out) ==
    IF out.exitCode # 0
    THEN [err |-> Err("Error", "ffprobe failed"), value |-> ""]
    ELSE IF ~out.json
    THEN [err |-> Err("SyntaxError", "JSON Parse error"), value |-> ""]
    ELSE IF ~out.stream \/ out.width = 0 \/ out.height = 0
    THEN [err |-> Err("Error", "Could not extract video dimensions"), value |-> ""]
    ELSE [err |-> NoError, value |-> Classify(out.width, out.height)]

-----------------------------------------------------------------------------
(* Remuxer: processVideoForFastStart *)

\* videos.ts 134
ProcessedPath(filePath) == filePath \o <<".processed">>

\* how the ffmpeg subprocess can end: exit 0 with the output written, or a non-zero
\* exit with no output or with a part of it
RemuxOutcomes == {"ok", "fail", "failPartial"}

\* processVideoForFastStart without its check of the exit status
processVideoIgnoringExit(fs, filePath, outcome) ==
    LET out == ProcessedPath(filePath)
    IN  IF ~Exists(fs, filePath) \/ outcome = "fail"
        THEN [exitCode |-> 1, err |-> NoError, fs |-> fs, path |-> out]
        ELSE IF outcome = "failPartial"
        THEN [exitCode |-> 1, err |-> NoError,
              fs |-> WriteFile(fs, out, Partial(fs[filePath].data)), path |-> out]
        ELSE [exitCode |-> 0, err |-> NoError,
              fs |-> WriteFile(fs, out, FastStart(fs[filePath])), path |-> out]

\* videos.ts 131-158: ffmpeg reads filePath and writes the sibling; a non-zero exit
\* throws, whether or not a partial output was written
processVideoForFastStart(fs, filePath, outcome) ==
    LET out == ProcessedPath(filePath)
        failed == Err("Error", "ffmpeg failed")
    IN  IF ~Exists(fs, filePath) \/ outcome = "fail"
        THEN [exitCode |-> 1, err |-> failed, fs |-> fs, path |-> <<>>]
        ELSE IF outcome = "failPartial"
        THEN [exitCode |-> 1, err |-> failed,
              fs |-> WriteFile(fs, out, Partial(fs[filePath].data)), path |-> <<>>]
        ELSE [exitCode |-> 0, err |-> NoError,
              fs |-> WriteFile(fs, out, FastStart(fs[filePath])), path |-> out]

-----------------------------------------------------------------------------
(* Keys, paths and URLs *)

\* videos.ts 57: randomBytes(32).toString("hex") + ".mp4"
InitialFileKey(random) == <<random, ".mp4">>

\* videos.ts 60
TempPath(fileKey) == <<"/tmp/">> \o fileKey

\* videos.ts 66
FinalFileKey(aspectRatio, fileKey) == <<aspectRatio, "/">> \o fileKey

\* videos.ts 72
VideoURL(fileKey) == <<"https://", cfg.s3CfDistribution, "/">> \o fileKey

\* the variant's URL: https://<bucket>.s3.<region>.amazonaws.com/<key>
DirectVideoURL(fileKey) ==
    <<"https://", cfg.s3Bucket, ".s3.", cfg.s3Region, ".amazonaws.com/">> \o fileKey

\* mediaType.split("/")
RECURSIVE SplitOnSlash(_)
SplitOnSlash(text) ==
    IF text = <<>>
    THEN << <<>> >>
    ELSE LET rest == SplitOnSlash(Tail(text))
         IN  IF Head(text) = "/"
             THEN << <<>> >> \o rest
             ELSE << <<Head(text)>> \o rest[1] >> \o Tail(rest)

\* assets.ts 13-19
mediaTypeToExt(mediaType) ==
    LET parts == SplitOnSlash(mediaType)
    IN  IF Len(parts) # 2 THEN <<".bin">> ELSE <<".">> \o parts[2]

\* assets.ts 122
ThumbnailFileName(videoId, mediaType) == <<videoId>> \o mediaTypeToExt(mediaType)

\* assets.ts 21-23: path.join(cfg.assetsRoot, assetPath)
getAssetDiskPath(assetPath) == <<cfg.assetsRoot, "/">> \o assetPath

\* assets.ts 25-27
getAssetUrl(assetPath) == <<"http://localhost:", cfg.port, "/assets/">> \o assetPath

-----------------------------------------------------------------------------
(* Temp-file release *)

\* videos.ts 76-80: Bun.file(tempPath).delete() inside try/catch.  The delete raises
\* when the file is not there, or when the unlink is refused (unlinkFails); the
\* catch logs and swallows.
ReleaseTemp(fs, path, unlinkFails) ==
    IF Exists(fs, path) /\ ~unlinkFails
    THEN [fs |-> RemoveFile(fs, path), logged |-> FALSE]
    ELSE [fs |-> fs, logged |-> TRUE]

-----------------------------------------------------------------------------
(* Outside calls whose code is not in the handlers' files *)

\* uploadVideoToS3(cfg, key, processedFilePath, contentType): puts the bytes of
\* the file at the path under the key; a failed put throws and stores nothing
uploadVideoToS3(bucket, key, fs, path, contentType, ok) ==
    IF ok
    THEN [err |-> NoError,
          bucket |-> WriteFile(bucket, key,
                        [content |-> ReadFile(fs, path), contentType |-> contentType])]
    ELSE [err |-> Err("StorageError", "put failed"), bucket |-> bucket]

\* respondWithJSON(status, payload); payload null is a response without a body
NoResponse == [status |-> 0, hasBody |-> FALSE, body |-> NoVideo]
respondWithJSON(status, hasBody, payload) ==
    [status |-> status, hasBody |-> hasBody, body |-> payload]

-----------------------------------------------------------------------------
(* A handler invocation *)

NoSnapshot == [db |-> <<>>, tmp |-> <<>>, s3 |-> <<>>, assets |-> <<>>]

IdleRun ==
    [ pc            |-> "idle",
      kind          |-> "",
      videoId       |-> "",        \* req.params.videoId
      token         |-> "",        \* bearer token of the request
      userID        |-> "",
      video         |-> NoVideo,   \* the handler's in-memory record
      file          |-> NotAFile,  \* formData.get(...)
      fileKey       |-> <<>>,
      tempPath      |-> <<>>,
      processedPath |-> <<>>,
      aspectRatio   |-> "",
      filename      |-> <<>>,      \* thumbnail handler
      assetDiskPath |-> <<>>,      \* thumbnail handler
      pending       |-> NoError,   \* the error that left the try block
      err           |-> NoError,   \* the error thrown to the caller
      response      |-> NoResponse,
      \* history of the invocation, read by the properties only
      serial        |-> 0,         \* the request's number
      read          |-> NoVideo,   \* what getVideo returned
      probe         |-> NoProbe,   \* what ffprobe reported
      trace         |-> <<>>,      \* outside calls made, in order, and how each ended
      before        |-> NoSnapshot \* the stores when the request arrived
    ]

Snapshot == [db |-> db, tmp |-> tmp, s3 |-> s3, assets |-> assets]

\* an outside call and whether it succeeded (exit status 0, nothing thrown)
Call(op, ok) == [op |-> op, ok |-> ok]

\* a random source that repeats itself: every run draws the same text
RepeatedRandom(run) == RandomTexts[1]

\* randomBytes(32) as text: a draw never repeats an earlier draw (256 bits), and
\* the texts are interchangeable, so the n-th request draws the n-th text
FreshRandom(run) == RandomTexts[run.serial]

\* the parts the n-th request can carry in its form; a request that arrived with
\* its part known carries that one
Parts(run) ==
    IF run.file.isFile
    THEN {run.file}
    ELSE Files(Sizes, MediaTypes, {PayloadTexts[run.serial]}) \cup {NotAFile}

Set(r, new) == runs' = [runs EXCEPT ![r] = new]

\* an error thrown outside any try block leaves the handler at once
Throw(run, error) == [run EXCEPT !.pc = "done", !.err = error]

\* an error thrown inside the try block of handlerUploadVideo: control goes to finally
Fail(run, error) == [run EXCEPT !.pc = "finally", !.pending = error]

-----------------------------------------------------------------------------
(* Initial state *)

Unclassified == [decided |-> FALSE, err |-> NoError, value |-> ""]
NoGate == [kind |-> "", videoId |-> "", token |-> "", file |-> NotAFile]
Undecided == [decided |-> FALSE, err |-> NoError]

InitStores ==
    /\ runs = [r \in Slots |-> IdleRun]
    /\ db = (KnownVideoId :> InitialVideo)
    /\ tmp = <<>>
    /\ s3 = <<>>
    /\ assets = <<>>
    /\ nreq = 0

Init ==
    /\ InitStores
    /\ gateIn = NoGate
    /\ gateOut = Undecided
    /\ probeIn = NoProbe
    /\ probeOut = Unclassified

-----------------------------------------------------------------------------
(* A request arrives *)

Receive(r) ==
    /\ runs[r].pc \in {"idle", "done"}
    /\ nreq < MaxRequests
    /\ \E kind \in Kinds, videoId \in VideoIdInputs, token \in Tokens :
          Set(r, [IdleRun EXCEPT !.pc = "entry", !.kind = kind, !.videoId = videoId,
                                 !.token = token, !.serial = nreq + 1,
                                 !.before = Snapshot])
    /\ nreq' = nreq + 1
    /\ UNCHANGED <<db, tmp, s3, assets, gateIn, gateOut, probeIn, probeOut>>

-----------------------------------------------------------------------------
(* Steps the primary-media handler and its variant share *)

\* videos.ts 15-34, part_000 14-33: up to the await of req.formData()
EntryStep(run, store) ==
    LET gate == VideoGateIdentity(run.videoId, run.token, store)
    IN  IF gate.err # NoError
        THEN Throw(run, gate.err)
        ELSE [run EXCEPT !.pc = "form", !.userID = gate.userID,
                         !.video = gate.video, !.read = gate.video]

\* videos.ts 36-62, part_000 35-61: the part is read and checked, the key drawn,
\* the staging write started
FormStep(run, part) ==
    LET error == VideoGateFile(part)
        key   == InitialFileKey(FreshRandom(run))
    IN  IF error # NoError
        THEN Throw([run EXCEPT !.file = part], error)
        ELSE [run EXCEPT !.pc = "write", !.file = part,
                         !.fileKey = key, !.tempPath = TempPath(key)]

\* Bun.write(path, file) ends: the file is there, or the write threw, with
\* nothing or a part of the file on disk
WriteOutcomes == {"ok", "failNone", "failPartial"}
BunWrite(fs, path, file, outcome) ==
    CASE outcome = "ok" ->
            [err |-> NoError, fs |-> WriteFile(fs, path, Raw(file.bytes))]
      [] outcome = "failPartial" ->
            [err |-> Err("WriteError", "write failed"),
             fs |-> WriteFile(fs, path, Partial(file.bytes))]
      [] OTHER ->
            [err |-> Err("WriteError", "write failed"), fs |-> fs]

\* the finally block without the try/catch around the delete: a delete that
\* raises replaces whatever the handler was about to throw or return
FinallyExitEscalating(run, released, response) ==
    LET t == run.trace \o <<Call("delete", ~released.logged)>>
    IN  IF released.logged
        THEN [run EXCEPT !.pc = "done", !.err = Err("Error", "delete failed"), !.trace = t]
        ELSE IF run.pending # NoError
        THEN [run EXCEPT !.pc = "done", !.err = run.pending, !.trace = t]
        ELSE [run EXCEPT !.pc = "done", !.response = response, !.trace = t]

\* videos.ts 76-83, part_000 77-84: after the release the error that left the try
\* block is rethrown, or the handler goes on to build its response
FinallyExit(run, released, response) ==
    LET t == run.trace \o <<Call("delete", ~released.logged)>>
                       \o (IF released.logged THEN <<Call("log", TRUE)>> ELSE <<>>)
    IN  IF run.pending # NoError
        THEN [run EXCEPT !.pc = "done", !.err = run.pending, !.trace = t]
        ELSE [run EXCEPT !.pc = "done", !.response = response, !.trace = t]

-----------------------------------------------------------------------------
(* handlerUploadVideo, src/api/videos.ts *)

VideoEntry(r) ==
    /\ runs[r].pc = "entry"
    /\ runs[r].kind = "video"
    /\ Set(r, EntryStep(runs[r], db))
    /\ UNCHANGED <<db, tmp, s3, assets, nreq, gateIn, gateOut, probeIn, probeOut>>

\* the part staged before it is checked
VideoFormStagingFirst(r) ==
    LET run == runs[r]
    IN  /\ run.pc = "form"
        /\ run.kind = "video"
        /\ \E part \in Parts(run) :
              LET key    == InitialFileKey(FreshRandom(run))
                  staged == [run EXCEPT !.file = part, !.fileKey = key,
                                        !.tempPath = TempPath(key),
                                        !.trace = <<Call("write", TRUE)>>]
              IN  /\ tmp' = WriteFile(tmp, TempPath(key), Raw(part.bytes))
                  /\ IF VideoGateFile(part) # NoError
                     THEN Set(r, Throw(staged, VideoGateFile(part)))
                     ELSE Set(r, [staged EXCEPT !.pc = "probe"])
        /\ UNCHANGED <<db, s3, assets, nreq, gateIn, gateOut, probeIn, probeOut>>

VideoForm(r) ==
    /\ runs[r].pc = "form"
    /\ runs[r].kind = "video"
    /\ \E part \in Parts(runs[r]) : Set(r, FormStep(runs[r], part))
    /\ UNCHANGED <<db, tmp, s3, assets, nreq, gateIn, gateOut, probeIn, probeOut>>

\* the staging write in a try/catch of its own: its failure is swallowed and the
\* handler goes on to the probe
VideoStageSwallowingFailure(r) ==
    LET run == runs[r]
    IN  /\ run.pc = "write"
        /\ run.kind = "video"
        /\ \E outcome \in WriteOutcomes :
              LET w == BunWrite(tmp, run.tempPath, run.file, outcome)
                  t == Append(run.trace, Call("write", outcome = "ok"))
              IN  /\ tmp' = w.fs
                  /\ Set(r, [run EXCEPT !.pc = "probe", !.trace = t])
        /\ UNCHANGED <<db, s3, assets, nreq, gateIn, gateOut, probeIn, probeOut>>

\* 62: the staging write ends; 63: ffprobe is spawned
VideoStage(r) ==
    LET run == runs[r]
    IN  /\ run.pc = "write"
        /\ run.kind = "video"
        /\ \E outcome \in WriteOutcomes :
              LET w == BunWrite(tmp, run.tempPath, run.file, outcome)
                  t == Append(run.trace, Call("write", outcome = "ok"))
              IN  /\ tmp' = w.fs
                  /\ IF w.err # NoError
                     THEN Set(r, Fail([run EXCEPT !.trace = t], w.err))
                     ELSE Set(r, [run EXCEPT !.pc = "probe", !.trace = t])
        /\ UNCHANGED <<db, s3, assets, nreq, gateIn, gateOut, probeIn, probeOut>>

\* 63: ffprobe ends; 65: ffmpeg is spawned
VideoProbe(r) ==
    LET run == runs[r]
    IN  /\ run.pc = "probe"
        /\ run.kind = "video"
        /\ \E out \in IF Exists(tmp, run.tempPath) THEN ProbeOutputs ELSE {ProbeMissingFile} :
              LET res  == getVideoAspectRatio(out)
                  seen == [run EXCEPT !.probe = out,
                                      !.trace = Append(run.trace, Call("ffprobe", out.exitCode = 0))]
              IN  IF res.err # NoError
                  THEN Set(r, Fail(seen, res.err))
                  ELSE Set(r, [seen EXCEPT !.pc = "remux", !.aspectRatio = res.value])
        /\ UNCHANGED <<db, tmp, s3, assets, nreq, gateIn, gateOut, probeIn, probeOut>>

\* 65-69: ffmpeg ends; the key gets its prefix and the put is started
VideoRemux(r) ==
    LET run == runs[r]
    IN  /\ run.pc = "remux"
        /\ run.kind = "video"
        /\ \E outcome \in RemuxOutcomes :
              LET res  == processVideoForFastStart(tmp, run.tempPath, outcome)
                  seen == [run EXCEPT !.trace = Append(run.trace, Call("ffmpeg", res.exitCode = 0))]
              IN  /\ tmp' = res.fs
                  /\ IF res.err # NoError
                     THEN Set(r, Fail(seen, res.err))
                     ELSE Set(r, [seen EXCEPT !.pc = "publish", !.processedPath = res.path,
                                     !.fileKey = FinalFileKey(run.aspectRatio, run.fileKey)])
        /\ UNCHANGED <<db, s3, assets, nreq, gateIn, gateOut, probeIn, probeOut>>

\* the put not awaited: its failure is not seen and the handler goes on to commit
VideoPublishUnawaited(r) ==
    LET run == runs[r]
    IN  /\ run.pc = "publish"
        /\ run.kind = "video"
        /\ \E ok \in BOOLEAN :
              LET res == uploadVideoToS3(s3, run.fileKey, tmp, run.processedPath,
                                         run.file.type, ok)
              IN  /\ s3' = res.bucket
                  /\ Set(r, [run EXCEPT !.pc = "commit",
                                        !.trace = Append(run.trace, Call("put", ok))])
        /\ UNCHANGED <<db, tmp, assets, nreq, gateIn, gateOut, probeIn, probeOut>>

\* the record persisted before the put has ended: the commit is made while the
\* put is in flight, and the put may still fail
VideoPublishCommittingFirst(r) ==
    LET run == runs[r]
    IN  /\ run.pc = "publish"
        /\ run.kind = "video"
        /\ \E ok \in BOOLEAN :
              LET res   == uploadVideoToS3(s3, run.fileKey, tmp, run.processedPath,
                                           run.file.type, ok)
                  video == [run.video EXCEPT !.videoURL = VideoURL(run.fileKey)]
                  seen  == [run EXCEPT !.video = video,
                                       !.trace = run.trace \o <<Call("updateVideo", TRUE),
                                                                 Call("put", ok)>>]
              IN  /\ s3' = res.bucket
                  /\ db' = updateVideo(db, video)
                  /\ IF res.err # NoError
                     THEN Set(r, Fail(seen, res.err))
                     ELSE Set(r, [seen EXCEPT !.pc = "finally"])
        /\ UNCHANGED <<tmp, assets, nreq, gateIn, gateOut, probeIn, probeOut>>

\* 69: the put ends
VideoPublish(r) ==
    LET run == runs[r]
    IN  /\ run.pc = "publish"
        /\ run.kind = "video"
        /\ \E ok \in BOOLEAN :
              LET res  == uploadVideoToS3(s3, run.fileKey, tmp, run.processedPath,
                                          run.file.type, ok)
                  seen == [run EXCEPT !.trace = Append(run.trace, Call("put", ok))]
              IN  /\ s3' = res.bucket
                  /\ IF res.err # NoError
                     THEN Set(r, Fail(seen, res.err))
                     ELSE Set(r, [seen EXCEPT !.pc = "commit"])
        /\ UNCHANGED <<db, tmp, assets, nreq, gateIn, gateOut, probeIn, probeOut>>

\* the commit handing the store a record built anew from the id, the owner, the
\* title and the new URL, in place of the record that was read
VideoCommitRebuildingRecord(r) ==
    LET run == runs[r]
    IN  /\ run.pc = "commit"
        /\ run.kind = "video"
        /\ \E ok \in BOOLEAN :
              LET video == [NoVideo EXCEPT !.id = run.video.id, !.userID = run.video.userID,
                                           !.title = run.video.title,
                                           !.videoURL = VideoURL(run.fileKey)]
                  seen  == [run EXCEPT !.video = video,
                                       !.trace = Append(run.trace, Call("updateVideo", ok))]
              IN  IF ok
                  THEN /\ db' = updateVideo(db, video)
                       /\ Set(r, [seen EXCEPT !.pc = "finally"])
                  ELSE /\ db' = db
                       /\ Set(r, Fail(seen, Err("PersistenceError", "update failed")))
        /\ UNCHANGED <<tmp, s3, assets, nreq, gateIn, gateOut, probeIn, probeOut>>

\* 72-73: the record is mutated in memory and handed to the store, which may throw
VideoCommit(r) ==
    LET run == runs[r]
    IN  /\ run.pc = "commit"
        /\ run.kind = "video"
        /\ \E ok \in BOOLEAN :
              LET video == [run.video EXCEPT !.videoURL = VideoURL(run.fileKey)]
                  seen  == [run EXCEPT !.video = video,
                                       !.trace = Append(run.trace, Call("updateVideo", ok))]
              IN  IF ok
                  THEN /\ db' = updateVideo(db, video)
                       /\ Set(r, [seen EXCEPT !.pc = "finally"])
                  ELSE /\ db' = db
                       /\ Set(r, Fail(seen, Err("PersistenceError", "update failed")))
        /\ UNCHANGED <<tmp, s3, assets, nreq, gateIn, gateOut, probeIn, probeOut>>

\* 74-83: the finally block releases the temp file, then the handler rethrows or
\* answers with the record
VideoFinally(r) ==
    LET run == runs[r]
    IN  /\ run.pc = "finally"
        /\ run.kind = "video"
        /\ \E unlinkFails \in BOOLEAN :
              LET released == ReleaseTemp(tmp, run.tempPath, unlinkFails)
              IN  /\ tmp' = released.fs
                  /\ Set(r, FinallyExit(run, released, respondWithJSON(200, TRUE, run.video)))
        /\ UNCHANGED <<db, s3, assets, nreq, gateIn, gateOut, probeIn, probeOut>>

VideoStep(r) ==
    \/ VideoEntry(r)
    \/ VideoForm(r)
    \/ VideoStage(r)
    \/ VideoProbe(r)
    \/ VideoRemux(r)
    \/ VideoPublish(r)
    \/ VideoCommit(r)
    \/ VideoFinally(r)

-----------------------------------------------------------------------------
(* handlerUploadVideo, the variant that puts the upload itself (unnamed/part_000) *)

DirectEntry(r) ==
    /\ runs[r].pc = "entry"
    /\ runs[r].kind = "videoDirect"
    /\ Set(r, EntryStep(runs[r], db))
    /\ UNCHANGED <<db, tmp, s3, assets, nreq, gateIn, gateOut, probeIn, probeOut>>

DirectForm(r) ==
    /\ runs[r].pc = "form"
    /\ runs[r].kind = "videoDirect"
    /\ \E part \in Parts(runs[r]) : Set(r, FormStep(runs[r], part))
    /\ UNCHANGED <<db, tmp, s3, assets, nreq, gateIn, gateOut, probeIn, probeOut>>

\* 61: the staging write ends; 64: the put of the upload is started
DirectStage(r) ==
    LET run == runs[r]
    IN  /\ run.pc = "write"
        /\ run.kind = "videoDirect"
        /\ \E outcome \in WriteOutcomes :
              LET w == BunWrite(tmp, run.tempPath, run.file, outcome)
                  t == Append(run.trace, Call("write", outcome = "ok"))
              IN  /\ tmp' = w.fs
                  /\ IF w.err # NoError
                     THEN Set(r, Fail([run EXCEPT !.trace = t], w.err))
                     ELSE Set(r, [run EXCEPT !.pc = "publish", !.trace = t])
        /\ UNCHANGED <<db, s3, assets, nreq, gateIn, gateOut, probeIn, probeOut>>

\* 64-69: cfg.s3Client.file(fileKey, ...).write(file) ends
DirectPublish(r) ==
    LET run == runs[r]
    IN  /\ run.pc = "publish"
        /\ run.kind = "videoDirect"
        /\ \E ok \in BOOLEAN :
              LET seen == [run EXCEPT !.trace = Append(run.trace, Call("put", ok))]
              IN  IF ok
                  THEN /\ s3' = WriteFile(s3, run.fileKey,
                                   [content |-> Raw(run.file.bytes), contentType |-> run.file.type])
                       /\ Set(r, [seen EXCEPT !.pc = "commit"])
                  ELSE /\ s3' = s3
                       /\ Set(r, Fail(seen, Err("StorageError", "put failed")))
        /\ UNCHANGED <<db, tmp, assets, nreq, gateIn, gateOut, probeIn, probeOut>>

\* 72-74
DirectCommit(r) ==
    LET run == runs[r]
    IN  /\ run.pc = "commit"
        /\ run.kind = "videoDirect"
        /\ \E ok \in BOOLEAN :
              LET video == [run.video EXCEPT !.videoURL = DirectVideoURL(run.fileKey)]
                  seen  == [run EXCEPT !.video = video,
                                       !.trace = Append(run.trace, Call("updateVideo", ok))]
              IN  IF ok
                  THEN /\ db' = updateVideo(db, video)
                       /\ Set(r, [seen EXCEPT !.pc = "finally"])
                  ELSE /\ db' = db
                       /\ Set(r, Fail(seen, Err("PersistenceError", "update failed")))
        /\ UNCHANGED <<tmp, s3, assets, nreq, gateIn, gateOut, probeIn, probeOut>>

\* 75-84: the finally block, then respondWithJSON(200, null)
DirectFinally(r) ==
    LET run == runs[r]
    IN  /\ run.pc = "finally"
        /\ run.kind = "videoDirect"
        /\ \E unlinkFails \in BOOLEAN :
              LET released == ReleaseTemp(tmp, run.tempPath, unlinkFails)
              IN  /\ tmp' = released.fs
                  /\ Set(r, FinallyExit(run, released, respondWithJSON(200, FALSE, NoVideo)))
        /\ UNCHANGED <<db, s3, assets, nreq, gateIn, gateOut, probeIn, probeOut>>

DirectStep(r) ==
    \/ DirectEntry(r)
    \/ DirectForm(r)
    \/ DirectStage(r)
    \/ DirectPublish(r)
    \/ DirectCommit(r)
    \/ DirectFinally(r)

-----------------------------------------------------------------------------
(* handlerUploadThumbnail, src/api/assets.ts *)

\* 89-103, up to the await of req.formData()
ThumbnailEntry(r) ==
    LET run  == runs[r]
        gate == ThumbnailGateIdentity(run.videoId, run.token, db)
    IN  /\ run.pc = "entry"
        /\ run.kind = "thumbnail"
        /\ IF gate.err # NoError
           THEN Set(r, Throw(run, gate.err))
           ELSE Set(r, [run EXCEPT !.pc = "form", !.userID = gate.userID,
                                   !.video = gate.video, !.read = gate.video])
        /\ UNCHANGED <<db, tmp, s3, assets, nreq, gateIn, gateOut, probeIn, probeOut>>

\* the file name drawn at random, as getAssetPath (assets.ts 29-34) draws it
ThumbnailFormRandomName(r) ==
    LET run == runs[r]
    IN  /\ run.pc = "form"
        /\ run.kind = "thumbnail"
        /\ \E part \in Parts(run) :
              LET error == ThumbnailGateFile(part)
                  name  == <<FreshRandom(run)>> \o mediaTypeToExt(part.type)
              IN  IF error # NoError
                  THEN Set(r, Throw([run EXCEPT !.file = part], error))
                  ELSE Set(r, [run EXCEPT !.pc = "write", !.file = part, !.filename = name,
                                          !.assetDiskPath = getAssetDiskPath(name)])
        /\ UNCHANGED <<db, tmp, s3, assets, nreq, gateIn, gateOut, probeIn, probeOut>>

\* 105-125: the part is read and checked, the file name derived, the write started
ThumbnailForm(r) ==
    LET run == runs[r]
    IN  /\ run.pc = "form"
        /\ run.kind = "thumbnail"
        /\ \E part \in Parts(run) :
              LET error == ThumbnailGateFile(part)
                  name  == ThumbnailFileName(run.videoId, part.type)
              IN  IF error # NoError
                  THEN Set(r, Throw([run EXCEPT !.file = part], error))
                  ELSE Set(r, [run EXCEPT !.pc = "write", !.file = part, !.filename = name,
                                          !.assetDiskPath = getAssetDiskPath(name)])
        /\ UNCHANGED <<db, tmp, s3, assets, nreq, gateIn, gateOut, probeIn, probeOut>>

\* 125: the write into the assets directory ends; a failed write throws out of the
\* handler, which has no cleanup
ThumbnailStage(r) ==
    LET run == runs[r]
    IN  /\ run.pc = "write"
        /\ run.kind = "thumbnail"
        /\ \E outcome \in WriteOutcomes :
              LET w == BunWrite(assets, run.assetDiskPath, run.file, outcome)
                  t == Append(run.trace, Call("write", outcome = "ok"))
              IN  /\ assets' = w.fs
                  /\ IF w.err # NoError
                     THEN Set(r, Throw([run EXCEPT !.trace = t], w.err))
                     ELSE Set(r, [run EXCEPT !.pc = "commit", !.trace = t])
        /\ UNCHANGED <<db, tmp, s3, nreq, gateIn, gateOut, probeIn, probeOut>>

\* 127-132
ThumbnailCommit(r) ==
    LET run == runs[r]
    IN  /\ run.pc = "commit"
        /\ run.kind = "thumbnail"
        /\ \E ok \in BOOLEAN :
              LET video == [run.video EXCEPT !.thumbnailURL = getAssetUrl(run.filename)]
                  seen  == [run EXCEPT !.video = video,
                                       !.trace = Append(run.trace, Call("updateVideo", ok))]
              IN  IF ok
                  THEN /\ db' = updateVideo(db, video)
                       /\ Set(r, [seen EXCEPT !.pc = "done",
                                     !.response = respondWithJSON(200, TRUE, video)])
                  ELSE /\ db' = db
                       /\ Set(r, Throw(seen, Err("PersistenceError", "update failed")))
        /\ UNCHANGED <<tmp, s3, assets, nreq, gateIn, gateOut, probeIn, probeOut>>

ThumbnailStep(r) ==
    \/ ThumbnailEntry(r)
    \/ ThumbnailForm(r)
    \/ ThumbnailStage(r)
    \/ ThumbnailCommit(r)

-----------------------------------------------------------------------------
(* The server handling one request at a time *)

Next ==
    \/ Receive(1)
    \/ VideoStep(1)
    \/ DirectStep(1)
    \/ ThumbnailStep(1)

Spec == Init /\ [][Next]_vars

-----------------------------------------------------------------------------
(* The validation gate alone, on complete requests *)

\* videos.ts 15-55 (part_000 14-54): the whole gate of the primary-media handler
VideoGate(videoId, token, file, store) ==
    LET first == VideoGateIdentity(videoId, token, store).err
    IN  IF first # NoError THEN first ELSE VideoGateFile(file)

\* assets.ts 89-119: the whole gate of the thumbnail handler
ThumbnailGate(videoId, token, file, store) ==
    LET first == ThumbnailGateIdentity(videoId, token, store).err
    IN  IF first # NoError THEN first ELSE ThumbnailGateFile(file)

GateRequests ==
    [ kind    : Kinds,
      videoId : VideoIdInputs,
      token   : Tokens,
      file    : Files(GateSizes, GateMediaTypes, {PayloadTexts[1]}) \cup {NotAFile} ]

InitGate ==
    /\ InitStores
    /\ gateIn \in GateRequests
    /\ gateOut = Undecided
    /\ probeIn = NoProbe
    /\ probeOut = Unclassified

Decide ==
    /\ ~gateOut.decided
    /\ gateOut' =
          [ decided |-> TRUE,
            err |-> IF gateIn.kind = "thumbnail"
                    THEN ThumbnailGate(gateIn.videoId, gateIn.token, gateIn.file, db)
                    ELSE VideoGate(gateIn.videoId, gateIn.token, gateIn.file, db) ]
    /\ UNCHANGED <<runs, db, tmp, s3, assets, nreq, gateIn, probeIn, probeOut>>

NextGate == Decide

SpecGate == InitGate /\ [][NextGate]_vars

-----------------------------------------------------------------------------
(* The prober alone, on the reports ffprobe can make *)

\* dimensions of the first stream: missing or zero, the usual frame sizes, a
\* square, and the pairs whose ratio is exactly 1/10 away from 16/9 or 9/16
ProbeDims == {0, 37, 53, 80, 90, 151, 169, 1000, 1080, 1920}

ProbeReports ==
    [exitCode : {1}, json : {TRUE}, stream : {FALSE}, width : {0}, height : {0}]
    \cup [exitCode : {0}, json : {FALSE}, stream : {FALSE}, width : {0}, height : {0}]
    \cup [exitCode : {0}, json : {TRUE}, stream : {FALSE}, width : {0}, height : {0}]
    \cup [exitCode : {0}, json : {TRUE}, stream : {TRUE}, width : ProbeDims, height : ProbeDims]

InitProbe ==
    /\ InitStores
    /\ gateIn = NoGate
    /\ gateOut = Undecided
    /\ probeIn \in ProbeReports
    /\ probeOut = Unclassified

\* videos.ts 103-128 applied to the report
Classified ==
    /\ ~probeOut.decided
    /\ probeOut' = [decided |-> TRUE] @@ getVideoAspectRatio(probeIn)
    /\ UNCHANGED <<runs, db, tmp, s3, assets, nreq, gateIn, gateOut, probeIn>>

NextProbe == Classified

SpecProbe == InitProbe /\ [][NextProbe]_vars

-----------------------------------------------------------------------------
(* The server with several requests in flight *)

\* The handlers are async functions on one event loop: between two awaits a
\* handler runs alone, and at an await any other handler may run.  The uploads
\* are well-formed ones of the owner for the one video; every slot serves one
\* request, the n-th request taking the n-th slot.  The stores at arrival are not recorded:
\* with other handlers running, what changes after it is not the run's doing.
\* the part of a well-formed upload of a kind: an mp4 of the largest size for
\* the primary media, a png of the largest size for a thumbnail
AcceptedPart(kind, serial) ==
    IF kind = "thumbnail"
    THEN [isFile |-> TRUE, size |-> MAX_UPLOAD_SIZE_THUMBNAIL, type |-> ImagePng,
          bytes |-> PayloadTexts[serial]]
    ELSE [isFile |-> TRUE, size |-> MAX_UPLOAD_SIZE, type |-> VideoMp4,
          bytes |-> PayloadTexts[serial]]

ReceiveConcurrent(r) ==
    /\ r = nreq + 1
    /\ runs[r].pc = "idle"
    /\ \E kind \in {"video", "thumbnail"} :
          Set(r, [IdleRun EXCEPT !.pc = "entry", !.kind = kind, !.videoId = KnownVideoId,
                                 !.token = "jwt-alice", !.serial = nreq + 1,
                                 !.file = AcceptedPart(kind, nreq + 1)])
    /\ nreq' = nreq + 1
    /\ UNCHANGED <<db, tmp, s3, assets, gateIn, gateOut, probeIn, probeOut>>

NextConcurrent ==
    \E r \in Slots :
        \/ ReceiveConcurrent(r)
        \/ VideoStep(r)
        \/ ThumbnailStep(r)

SpecConcurrent == Init /\ [][NextConcurrent]_vars

-----------------------------------------------------------------------------
(* Reading an invocation's history *)

Made(run, op) == \E i \in DOMAIN run.trace : run.trace[i].op = op
Succeeded(run, op) == \E i \in DOMAIN run.trace : run.trace[i] = Call(op, TRUE)
Failed(run, op) == \E i \in DOMAIN run.trace : run.trace[i] = Call(op, FALSE)

\* the delete of the finally block raised
ReleaseFailed(run) == Failed(run, "delete")

\* the probe stage failed: non-zero exit, unparsable output, no stream, no dimensions
ProbeFailed(run) ==
    Made(run, "ffprobe") /\ getVideoAspectRatio(run.probe).err # NoError

\* a run of handlerUploadVideo that got past validation and has returned
VideoRunReturned(run) ==
    run.kind = "video" /\ run.pc = "done" /\ run.tempPath # <<>>

\* the error of the first stage that failed, NoError when none did
OriginatingError(run) ==
    IF Failed(run, "write") THEN Err("WriteError", "write failed")
    ELSE IF ProbeFailed(run) THEN getVideoAspectRatio(run.probe).err
    ELSE IF Failed(run, "ffmpeg") THEN Err("Error", "ffmpeg failed")
    ELSE IF Failed(run, "put") THEN Err("StorageError", "put failed")
    ELSE IF Failed(run, "updateVideo") THEN Err("PersistenceError", "update failed")
    ELSE NoError

ValidationErrorKinds ==
    {"BadRequestError", "UserNotAuthenticatedError", "UserForbiddenError", "NotFoundError"}

-----------------------------------------------------------------------------
(* C1 *)

\* C1: cleanup invariant.  Once a run of handlerUploadVideo that got past
\* validation has returned, normally or by throwing, neither the raw temp file
\* /tmp/<key> nor the remuxed sibling <tempPath>.processed is in scratch storage.
\* Stated for the runs whose delete did not itself raise.
C1_CleanupInvariant ==
    \A r \in Slots :
        LET run == runs[r]
        IN  (VideoRunReturned(run) /\ ~ReleaseFailed(run))
            => /\ ~Exists(tmp, run.tempPath)
               /\ ~Exists(tmp, ProcessedPath(run.tempPath))

-----------------------------------------------------------------------------
(* C2 *)

\* C2: a validation rejection of a primary-media upload has no side effect: no
\* outside call was made (no temp file written, no subprocess, no put, no record
\* update), the four stores are as they were when the request arrived, no key was
\* drawn and the in-memory record is the one getVideo returned.
C2_RejectionHasNoSideEffect ==
    \A r \in Slots :
        LET run == runs[r]
        IN  (run.kind = "video" /\ run.pc = "done" /\ run.err.kind \in ValidationErrorKinds)
            => /\ run.trace = <<>>
               /\ run.tempPath = <<>>
               /\ tmp = run.before.tmp
               /\ s3 = run.before.s3
               /\ assets = run.before.assets
               /\ db = run.before.db
               /\ run.video = run.read

\* a primary-media upload rejected for its content type, by a server that already
\* holds files from an earlier upload
C2_Witness ==
    \E r \in Slots :
        /\ runs[r].kind = "video"
        /\ runs[r].pc = "done"
        /\ runs[r].err = Err("BadRequestError", "Invalid Content-Type for video")
        /\ s3 # <<>>

-----------------------------------------------------------------------------
(* C3 *)

\* C3: when the remux subprocess exits non-zero, the caller gets the remux error
\* and no response; the finally block has called the delete of the raw temp file,
\* which is gone unless that delete raised; no put was attempted and the bucket is
\* as before; the record was neither mutated nor persisted.
C3_RemuxFailure ==
    \A r \in Slots :
        LET run == runs[r]
        IN  (run.kind = "video" /\ run.pc = "done" /\ Failed(run, "ffmpeg"))
            => /\ run.err = Err("Error", "ffmpeg failed")
               /\ run.response = NoResponse
               /\ Made(run, "delete")
               /\ ~ReleaseFailed(run) => ~Exists(tmp, run.tempPath)
               /\ ~Made(run, "put")
               /\ s3 = run.before.s3
               /\ ~Made(run, "updateVideo")
               /\ run.video = run.read
               /\ db = run.before.db

\* the remux failed after writing a part of its output, and the run has returned
C3_Witness ==
    \E r \in Slots :
        /\ runs[r].kind = "video"
        /\ runs[r].pc = "done"
        /\ Failed(runs[r], "ffmpeg")
        /\ ~ReleaseFailed(runs[r])
        /\ Exists(tmp, ProcessedPath(runs[r].tempPath))

-----------------------------------------------------------------------------
(* C4 *)

\* C4: in every state of a primary-media run, the in-memory record differs from
\* the one read, or updateVideo was called, or the stored record differs from the
\* one at arrival, only if the put of this run succeeded and its object is in the
\* bucket; and once staging, probe, remux or publish has failed, the stored record
\* is the one from before the run.
C4_NoPartialMetadata ==
    \A r \in Slots :
        LET run == runs[r]
        IN  run.kind = "video"
            => /\ (run.video # run.read \/ Made(run, "updateVideo") \/ db # run.before.db)
                    => /\ Succeeded(run, "put")
                       /\ Exists(s3, run.fileKey)
                       /\ run.video.videoURL = VideoURL(run.fileKey)
               /\ (Failed(run, "write") \/ ProbeFailed(run) \/ Failed(run, "ffmpeg")
                      \/ Failed(run, "put"))
                    => /\ db = run.before.db
                       /\ run.video = run.read
                       /\ ~Made(run, "updateVideo")

\* a run that has committed its record
C4_Witness ==
    \E r \in Slots :
        /\ runs[r].kind = "video"
        /\ Succeeded(runs[r], "updateVideo")
        /\ db # runs[r].before.db

-----------------------------------------------------------------------------
(* C7 *)

\* C7: the error the caller of handlerUploadVideo receives is the error of the
\* first stage that failed, and with it no response; a run none of whose stages
\* failed answers 200 and throws nothing; both whether or not the delete of the
\* temp file raised, which is logged.
C7_ErrorPropagation ==
    \A r \in Slots :
        LET run == runs[r]
        IN  VideoRunReturned(run)
            => /\ run.err = OriginatingError(run)
               /\ OriginatingError(run) # NoError => run.response = NoResponse
               /\ OriginatingError(run) = NoError => run.response.status = 200
               /\ ReleaseFailed(run) => Made(run, "log")

\* the put failed and then the delete of the temp file raised
C7_Witness ==
    \E r \in Slots :
        /\ VideoRunReturned(runs[r])
        /\ Failed(runs[r], "put")
        /\ ReleaseFailed(runs[r])

-----------------------------------------------------------------------------
(* C8 *)

\* C8: when the put succeeded and updateVideo failed, the caller gets the
\* persistence error, nothing was deleted from the bucket (the object stays), the
\* run's staged files, raw and remuxed, are released, and the stored record does
\* not reference the new object.  Stated for the runs whose delete did not raise.
C8_OrphanOnCommitFailure ==
    \A r \in Slots :
        LET run == runs[r]
        IN  (VideoRunReturned(run) /\ Succeeded(run, "put") /\ Failed(run, "updateVideo")
                /\ ~ReleaseFailed(run))
            => /\ run.err = Err("PersistenceError", "update failed")
               /\ Exists(s3, run.fileKey)
               /\ DOMAIN run.before.s3 \subseteq DOMAIN s3
               /\ db[run.videoId].videoURL # VideoURL(run.fileKey)
               /\ ~Exists(tmp, run.tempPath)
               /\ ~Exists(tmp, ProcessedPath(run.tempPath))

-----------------------------------------------------------------------------
(* C9 *)

\* C9: after a successful primary-media run the stored videoURL is
\* https://<distribution-host>/<key> with <key> the key of the run's put, the key
\* is <classification>/<random>.mp4 with the classification of the run's probe,
\* the object holds the remuxed bytes of the upload, and no temp file of the run
\* is left.  Stated for the runs whose delete did not raise.
C9_SuccessfulRun ==
    \A r \in Slots :
        LET run == runs[r]
        IN  (VideoRunReturned(run) /\ run.err = NoError /\ ~ReleaseFailed(run))
            => /\ db[run.videoId].videoURL = <<"https://", cfg.s3CfDistribution, "/">> \o run.fileKey
               /\ run.fileKey = << Classify(run.probe.width, run.probe.height), "/",
                                   RandomTexts[run.serial], ".mp4" >>
               /\ Exists(s3, run.fileKey)
               /\ s3[run.fileKey].content = FastStart(Raw(run.file.bytes))
               /\ ~Exists(tmp, run.tempPath)
               /\ ~Exists(tmp, ProcessedPath(run.tempPath))

-----------------------------------------------------------------------------
(* C10 *)

\* C10: a successful primary-media upload answers without a body; a successful
\* thumbnail upload answers with the updated record, whose thumbnailURL is the URL
\* of the new asset.
C10_ResponseShape ==
    \A r \in Slots :
        LET run == runs[r]
        IN  (run.pc = "done" /\ run.err = NoError)
            => /\ run.kind \in {"video", "videoDirect"} => ~run.response.hasBody
               /\ run.kind = "thumbnail"
                    => /\ run.response.hasBody
                       /\ run.response.body = db[run.videoId]
                       /\ run.response.body.thumbnailURL = getAssetUrl(run.filename)

-----------------------------------------------------------------------------
(* C5, C6: the gate on complete requests *)

\* the checks of the gate as numbered: 1 id, 2 authentication, 3 existence,
\* 4 ownership, 5 part is a file, 6 size, 7 content type
CheckFails(k, req) ==
    CASE k = 1 -> ~validateUUID(req.videoId)
      [] k = 2 -> TokenUser(req.token) = ""
      [] k = 3 -> req.videoId \notin DOMAIN db
      [] k = 4 -> req.videoId \in DOMAIN db /\ db[req.videoId].userID # TokenUser(req.token)
      [] k = 5 -> ~req.file.isFile
      [] k = 6 -> req.file.size > (IF req.kind = "thumbnail"
                                   THEN MAX_UPLOAD_SIZE_THUMBNAIL ELSE MAX_UPLOAD_SIZE)
      [] k = 7 -> IF req.kind = "thumbnail"
                  THEN req.file.type = <<>>
                  ELSE req.file.type # VideoMp4

\* the earliest failing check, 0 when every check passes
EarliestFailing(req) ==
    IF \E k \in 1..7 : CheckFails(k, req)
    THEN CHOOSE k \in 1..7 : CheckFails(k, req) /\ \A j \in 1..(k - 1) : ~CheckFails(j, req)
    ELSE 0

\* the check a rejection reports
ReportedCheck(err) ==
    CASE err = NoError -> 0
      [] err.msg \in {"Invalid video ID", "Invalid video ID format"} -> 1
      [] err.kind = "UserNotAuthenticatedError" -> 2
      [] err.msg \in {"Video not found", "Couldn't find video"} -> 3
      [] err.kind = "UserForbiddenError" -> 4
      [] err.msg \in {"Invalid video file", "Invalid thumbnail file"} -> 5
      [] err.msg \in {"Video file exceeds maximum size", "Thumbnail file exceeds maximum size"} -> 6
      [] err.msg \in {"Invalid Content-Type for video", "Missing Content-Type for thumbnail"} -> 7

\* C5: the gate of either handler reports the rejection of the earliest failing
\* check in the order id, authentication, existence, ownership, file, size,
\* content type, and accepts when no check fails.
C5_GateOrder ==
    gateOut.decided => ReportedCheck(gateOut.err) = EarliestFailing(gateIn)

\* C6: in either handler an upload with a well-formed id and a valid token is
\* rejected as NotFound when no record has the id, and as Forbidden when the
\* record belongs to someone else; neither kind is BadRequest.
C6_RejectionKinds ==
    (gateOut.decided /\ validateUUID(gateIn.videoId) /\ TokenUser(gateIn.token) # "")
        => /\ gateIn.videoId \notin DOMAIN db => gateOut.err.kind = "NotFoundError"
           /\ (gateIn.videoId \in DOMAIN db
                 /\ db[gateIn.videoId].userID # TokenUser(gateIn.token))
                => gateOut.err.kind = "UserForbiddenError"

-----------------------------------------------------------------------------
(* C11 *)

\* the decision rule on the rationals: within 1/10 of 16/9, else within 1/10 of 9/16
RuleOnRationals(width, height) ==
    IF 10 * Abs(9 * width - 16 * height) < 9 * height
    THEN "landscape"
    ELSE IF 10 * Abs(16 * width - 9 * height) < 16 * height
    THEN "portrait"
    ELSE "other"

\* C11: for a report with positive width and height the classification is
\* landscape iff |width/height - 16/9| < 1/10, otherwise portrait iff
\* |width/height - 9/16| < 1/10, otherwise other, so that (1920,1080) is landscape,
\* (1080,1920) portrait and (1000,1000) other; a report with a missing or zero
\* width or height gives an error and no classification.
C11_AspectClassification ==
    (probeOut.decided /\ probeIn.exitCode = 0 /\ probeIn.json /\ probeIn.stream)
        => IF probeIn.width > 0 /\ probeIn.height > 0
           THEN /\ probeOut.err = NoError
                /\ probeOut.value = RuleOnRationals(probeIn.width, probeIn.height)
                /\ (probeIn.width = 1920 /\ probeIn.height = 1080) => probeOut.value = "landscape"
                /\ (probeIn.width = 1080 /\ probeIn.height = 1920) => probeOut.value = "portrait"
                /\ (probeIn.width = 1000 /\ probeIn.height = 1000) => probeOut.value = "other"
           ELSE /\ probeOut.err = Err("Error", "Could not extract video dimensions")
                /\ probeOut.value = ""

-----------------------------------------------------------------------------
(* C12 *)

\* the ceiling of the asset class of a run
Ceiling(run) ==
    IF run.kind = "thumbnail" THEN MAX_UPLOAD_SIZE_THUMBNAIL ELSE MAX_UPLOAD_SIZE

SizeErrors ==
    { Err("BadRequestError", "Video file exceeds maximum size"),
      Err("BadRequestError", "Thumbnail file exceeds maximum size") }

\* a run whose uploaded part has been read and is a file
PartChecked(run) ==
    run.pc \notin {"idle", "entry", "form"} /\ run.file.isFile

\* C12: a run whose part is a file is rejected for its size, with a BadRequest,
\* exactly when the size is strictly greater than the ceiling of its asset class
\* (2^30 for primary media, 10 * 2^20 for thumbnails), so a file of exactly the
\* ceiling passes the size check; and a run rejected for its size has made no
\* outside call and has left scratch storage, the assets directory and the bucket
\* as they were.
C12_SizeCeiling ==
    \A r \in Slots :
        LET run == runs[r]
        IN  PartChecked(run)
            => /\ run.err \in SizeErrors <=> run.file.size > Ceiling(run)
               /\ run.err \in SizeErrors
                    => /\ run.err.kind = "BadRequestError"
                       /\ run.pc = "done"
                       /\ run.trace = <<>>
                       /\ tmp = run.before.tmp
                       /\ assets = run.before.assets
                       /\ s3 = run.before.s3
               /\ (run.file.size = Ceiling(run) /\ run.kind = "thumbnail")
                    => run.err # Err("BadRequestError", "Thumbnail file exceeds maximum size")
               /\ (run.file.size = Ceiling(run) /\ run.kind # "thumbnail")
                    => run.err # Err("BadRequestError", "Video file exceeds maximum size")

\* a thumbnail one byte over its ceiling has been refused by a server whose
\* assets directory holds an earlier thumbnail
C12_Witness ==
    \E r \in Slots :
        /\ runs[r].kind = "thumbnail"
        /\ runs[r].pc = "done"
        /\ runs[r].file.size = MAX_UPLOAD_SIZE_THUMBNAIL + 1
        /\ runs[r].err = Err("BadRequestError", "Thumbnail file exceeds maximum size")
        /\ assets # <<>>

-----------------------------------------------------------------------------
(* C13 *)

\* the extension of a content type: "." and what follows the slash when the type
\* has exactly one slash, ".bin" otherwise
SlashCount(type) == Cardinality({i \in DOMAIN type : type[i] = "/"})
SlashAt(type) == CHOOSE i \in DOMAIN type : type[i] = "/"
ExtOf(type) ==
    IF SlashCount(type) = 1
    THEN <<".">> \o SubSeq(type, SlashAt(type) + 1, Len(type))
    ELSE <<".bin">>

\* a thumbnail run that has returned its 200
ThumbnailSucceeded(run) ==
    run.kind = "thumbnail" /\ run.pc = "done" /\ run.err = NoError

\* C13: the file name of a thumbnail upload is <videoID><ext>, a function of the
\* video id and the content type alone; after a successful thumbnail upload the
\* assets directory holds the assets it held before and the one of that name (an
\* earlier thumbnail of the same id and type is replaced, not added to), that
\* asset holds the bytes of this upload, and the stored thumbnailURL is the URL
\* of that asset.
C13_ThumbnailKeying ==
    \A r \in Slots :
        LET run  == runs[r]
            name == <<run.videoId>> \o ExtOf(run.file.type)
            path == <<cfg.assetsRoot, "/">> \o name
        IN  /\ (run.kind = "thumbnail" /\ run.filename # <<>>)
                 => /\ run.filename = name
                    /\ run.assetDiskPath = path
            /\ ThumbnailSucceeded(run)
                 => /\ DOMAIN assets = DOMAIN run.before.assets \cup {path}
                    /\ assets[path] = Raw(run.file.bytes)
                    /\ \A p \in DOMAIN assets \ {path} : assets[p] = run.before.assets[p]
                    /\ db[run.videoId].thumbnailURL
                          = <<"http://localhost:", cfg.port, "/assets/">> \o name

\* a second successful thumbnail upload of the same id and type has replaced the
\* bytes of the first
C13_Witness ==
    \E r \in Slots :
        LET run == runs[r]
        IN  /\ ThumbnailSucceeded(run)
            /\ run.assetDiskPath \in DOMAIN run.before.assets
            /\ run.before.assets[run.assetDiskPath].form = "raw"
            /\ run.before.db[run.videoId].thumbnailURL = getAssetUrl(run.filename)
            /\ assets[run.assetDiskPath] # run.before.assets[run.assetDiskPath]
            /\ Cardinality(DOMAIN assets) = 1

-----------------------------------------------------------------------------
(* C14 *)

\* the outside calls of the stages, in the order of the pipeline
StageOps == <<"write", "ffprobe", "ffmpeg", "put", "updateVideo">>

IsStageCall(call) == call.op \notin {"delete", "log"}

\* the stage calls a run has made so far, in order
StageCalls(run) == SelectSeq(run.trace, IsStageCall)

\* C14: in every state of a primary-media run the stage calls made so far are,
\* in order and each once, the first ones of staging write, probe, remux, put,
\* commit; every call but the last made has succeeded, and the remux was not
\* called after a probe that gave no classification; the first call was made
\* only after the whole validation had passed; and the key has its
\* classification prefix exactly when the remux has succeeded, so before any
\* put.
C14_StageOrder ==
    \A r \in Slots :
        LET run   == runs[r]
            calls == StageCalls(run)
            key   == <<RandomTexts[run.serial], ".mp4">>
        IN  run.kind = "video"
            => /\ Len(calls) <= Len(StageOps)
               /\ \A i \in DOMAIN calls :
                     /\ calls[i].op = StageOps[i]
                     /\ i < Len(calls) => calls[i].ok
               /\ Made(run, "ffmpeg") => (~ProbeFailed(run) /\ run.aspectRatio # "")
               /\ calls # <<>>
                    => /\ VideoGate(run.videoId, run.token, run.file, run.before.db) = NoError
                       /\ run.read = run.before.db[run.videoId]
               /\ run.fileKey # <<>>
                    => run.fileKey = IF Succeeded(run, "ffmpeg")
                                     THEN <<run.aspectRatio, "/">> \o key
                                     ELSE key
               /\ Made(run, "put") => Succeeded(run, "ffmpeg")

\* a run has gone through all five stages, on a server where an earlier run
\* left an object in the bucket
C14_Witness ==
    \E r \in Slots :
        /\ runs[r].kind = "video"
        /\ Len(StageCalls(runs[r])) = 5
        /\ Succeeded(runs[r], "updateVideo")
        /\ runs[r].pc = "done"
        /\ Cardinality(DOMAIN s3) = 2

-----------------------------------------------------------------------------
(* C15 *)

\* the failure modes of the probe, read off the report of ffprobe
ProbeExitedNonZero(out) == out.exitCode # 0
ProbeUnparseable(out) == out.exitCode = 0 /\ ~out.json
ProbeWithoutStream(out) == out.exitCode = 0 /\ out.json /\ ~out.stream
ProbeWithoutDimensions(out) ==
    out.exitCode = 0 /\ out.json /\ out.stream /\ (out.width = 0 \/ out.height = 0)

ProbeReportUnusable(out) ==
    \/ ProbeExitedNonZero(out)
    \/ ProbeUnparseable(out)
    \/ ProbeWithoutStream(out)
    \/ ProbeWithoutDimensions(out)

\* C15: a primary-media run whose probe exited non-zero, or printed what does
\* not parse, or reported no first stream, or a missing or zero width or height,
\* has no classification, never calls the remux, the put or the commit, and
\* leaves the key, the bucket and the record store untouched; once it has
\* returned, the caller has the probe's error and no response, the delete of the
\* raw temp file was called and the file is gone unless that delete raised.
C15_ProbeFailuresFatal ==
    \A r \in Slots :
        LET run == runs[r]
        IN  (run.kind = "video" /\ Made(run, "ffprobe") /\ ProbeReportUnusable(run.probe))
            => /\ run.aspectRatio = ""
               /\ run.pc \in {"finally", "done"}
               /\ ~Made(run, "ffmpeg")
               /\ ~Made(run, "put")
               /\ ~Made(run, "updateVideo")
               /\ run.fileKey = <<RandomTexts[run.serial], ".mp4">>
               /\ s3 = run.before.s3
               /\ db = run.before.db
               /\ run.video = run.read
               /\ run.pc = "done"
                    => /\ run.err.kind \in {"Error", "SyntaxError"}
                       /\ run.err.msg \in {"ffprobe failed", "JSON Parse error",
                                           "Could not extract video dimensions"}
                       /\ run.response = NoResponse
                       /\ Made(run, "delete")
                       /\ ~ReleaseFailed(run) => ~Exists(tmp, run.tempPath)

\* a run whose probe reported a first stream with a height of zero has returned
\* and its raw temp file is released
C15_Witness ==
    \E r \in Slots :
        LET run == runs[r]
        IN  /\ run.kind = "video"
            /\ run.pc = "done"
            /\ ProbeWithoutDimensions(run.probe)
            /\ run.probe.width = 1920
            /\ Succeeded(run, "delete")
            /\ run.err = Err("Error", "Could not extract video dimensions")

-----------------------------------------------------------------------------
(* C16 *)

\* the field a handler sets, and the value it sets it to
CommittedField(run) ==
    IF run.kind = "thumbnail" THEN "thumbnailURL" ELSE "videoURL"

CommittedURL(run) ==
    CASE run.kind = "video"       -> <<"https://", cfg.s3CfDistribution, "/">> \o run.fileKey
      [] run.kind = "videoDirect" -> DirectVideoURL(run.fileKey)
      [] run.kind = "thumbnail"   -> <<"http://localhost:", cfg.port, "/assets/">> \o run.filename

\* two records agree on every field but one
SameButFor(field, a, b) ==
    /\ DOMAIN a = DOMAIN b
    /\ \A f \in DOMAIN a \ {field} : a[f] = b[f]

\* C16: the record a run hands to updateVideo is the record getVideo returned to
\* it with one field set, videoURL by a primary-media run and thumbnailURL by a
\* thumbnail run; and when the update has succeeded the stored record is that
\* record, equal on every other field to the record stored before the run.
C16_CommitFrame ==
    \A r \in Slots :
        LET run == runs[r]
        IN  /\ run.kind # "" => (run.video = run.read \/ Made(run, "updateVideo"))
            /\ Made(run, "updateVideo")
                 => /\ SameButFor(CommittedField(run), run.video, run.read)
                    /\ run.video[CommittedField(run)] = CommittedURL(run)
            /\ Succeeded(run, "updateVideo")
                 => /\ db[run.videoId] = run.video
                    /\ SameButFor(CommittedField(run), db[run.videoId],
                                  run.before.db[run.videoId])
                    /\ DOMAIN db = DOMAIN run.before.db
            /\ (run.kind # "" /\ ~Succeeded(run, "updateVideo")) => db = run.before.db

\* a primary-media run has committed a record that already had a thumbnailURL
C16_Witness ==
    \E r \in Slots :
        LET run == runs[r]
        IN  /\ run.kind = "video"
            /\ Succeeded(run, "updateVideo")
            /\ run.read.thumbnailURL # NoURL
            /\ db[run.videoId].thumbnailURL = run.read.thumbnailURL
            /\ db[run.videoId].videoURL # run.read.videoURL

-----------------------------------------------------------------------------
(* C17 *)

\* the scratch paths of a primary-media run: the raw temp file and its sibling
StagedPaths(run) == {run.tempPath, ProcessedPath(run.tempPath)}

\* a primary-media run that has drawn its key
VideoRunStaging(run) == run.kind = "video" /\ run.tempPath # <<>>

\* C17: with several primary-media runs in flight, any two of them have disjoint
\* scratch paths; every file in scratch storage is at a path of exactly one run
\* and holds bytes of that run's upload; the object a run has put holds the
\* remuxed bytes of its own upload; and a run that has staged its file and not
\* yet reached its cleanup still finds it, as it finds its remuxed file until
\* then, whatever the other runs have deleted.
C17_StagedFilesNotShared ==
    /\ \A r, q \in Slots :
          (r # q /\ VideoRunStaging(runs[r]) /\ VideoRunStaging(runs[q]))
            => StagedPaths(runs[r]) \cap StagedPaths(runs[q]) = {}
    /\ \A p \in DOMAIN tmp :
          \E r \in Slots :
             /\ VideoRunStaging(runs[r])
             /\ p \in StagedPaths(runs[r])
             /\ tmp[p].data = runs[r].file.bytes
             /\ \A q \in Slots \ {r} : p \notin StagedPaths(runs[q])
    /\ \A r \in Slots :
          LET run == runs[r]
          IN  run.kind = "video"
              => /\ Succeeded(run, "put")
                      => /\ Exists(s3, run.fileKey)
                         /\ s3[run.fileKey].content = FastStart(Raw(run.file.bytes))
                 /\ run.pc \in {"probe", "remux", "publish", "commit"}
                      => /\ Exists(tmp, run.tempPath)
                         /\ tmp[run.tempPath] = Raw(run.file.bytes)
                 /\ run.pc \in {"publish", "commit"}
                      => /\ Exists(tmp, run.processedPath)
                         /\ tmp[run.processedPath] = FastStart(Raw(run.file.bytes))

\* one primary-media run has deleted its temp file and returned while another,
\* which arrived before it, is about to put its remuxed file
C17_Witness ==
    \E r, q \in Slots :
        /\ r < q
        /\ runs[r].kind = "video"
        /\ runs[q].kind = "video"
        /\ runs[q].pc = "done"
        /\ Succeeded(runs[q], "delete")
        /\ Succeeded(runs[q], "ffmpeg")
        /\ runs[r].pc = "publish"
        /\ Exists(tmp, runs[r].processedPath)

-----------------------------------------------------------------------------
(* C18 *)

\* a primary-media run whose updateVideo has returned
VideoCommitted(run) == run.kind = "video" /\ Succeeded(run, "updateVideo")

\* only primary-media uploads have arrived
OnlyVideoRuns == \A r \in Slots : runs[r].kind \in {"", "video"}

\* C18: with several primary-media runs on the one video in flight and failures
\* at any stage, in every state the stored videoURL, when there is one, is the
\* URL https://<distribution-host>/<key> of one run whose put and whose commit
\* both succeeded, with <key> the whole key of that run and its object in the
\* bucket; there is one as soon as some run has committed, and none before; the
\* rest of the record is as it was.  So it is in particular when all runs have
\* returned.
C18_PersistedUrlIsPublished ==
    OnlyVideoRuns
        => /\ db[KnownVideoId].videoURL # NoURL
                => \E r \in Slots :
                      /\ VideoCommitted(runs[r])
                      /\ Succeeded(runs[r], "put")
                      /\ ~Failed(runs[r], "put")
                      /\ db[KnownVideoId].videoURL
                            = <<"https://", cfg.s3CfDistribution, "/">> \o runs[r].fileKey
                      /\ Exists(s3, runs[r].fileKey)
                      /\ s3[runs[r].fileKey].content.data = runs[r].file.bytes
           /\ (\E r \in Slots : VideoCommitted(runs[r])) <=> db[KnownVideoId].videoURL # NoURL
           /\ SameButFor("videoURL", db[KnownVideoId], InitialVideo)

\* two primary-media runs have both committed and returned, a third or none has
\* failed, and the stored URL is that of the run that arrived first
C18_Witness ==
    /\ OnlyVideoRuns
    /\ VideoCommitted(runs[1])
    /\ VideoCommitted(runs[2])
    /\ \A r \in Slots : runs[r].pc \in {"idle", "done"}
    /\ db[KnownVideoId].videoURL = VideoURL(runs[1].fileKey)

-----------------------------------------------------------------------------
(* C19 *)

\* C19: when a primary-media run and a thumbnail run on the one video have both
\* committed and returned, the stored record has the videoURL of the media run
\* and the thumbnailURL of the thumbnail run.
C19_NoLostUpdate ==
    \A v, t \in Slots :
        ( /\ runs[v].kind = "video"
          /\ runs[t].kind = "thumbnail"
          /\ runs[v].pc = "done"
          /\ runs[t].pc = "done"
          /\ Succeeded(runs[v], "updateVideo")
          /\ Succeeded(runs[t], "updateVideo") )
        => /\ db[KnownVideoId].videoURL = VideoURL(runs[v].fileKey)
           /\ db[KnownVideoId].thumbnailURL = getAssetUrl(runs[t].filename)

====
